---- MODULE Spec2Model ----
(***************************************************************************)
(* Inventory reservation and order lifecycle of the e-commerce API:        *)
(* checkout, pay, the expiry sweeper, the admin order-status update and    *)
(* the admin product update, over the Product, Cart, Order and Payment     *)
(* collections.  Every await of a handler is one step of the model.  With  *)
(* a replica set (txnSupported) the writes a callback makes through its    *)
(* session become visible together at commit, a write to a document that   *)
(* changed since the transaction's snapshot is a write conflict and        *)
(* withTransaction runs the callback again; without one, runWithTransaction*)
(* runs the callback a second time with session = null and every write is  *)
(* visible as soon as it is made.                                          *)
(***************************************************************************)
EXTENDS Integers, Sequences, FiniteSets, TLC

\* ---------------------------------------------------------------- bounds
Users == {"u1", "u2"}
Products == {"p1", "p2"}
MaxStock == 2
MaxQty == 1
MaxPrice == 2
MaxReq == 3
MaxSweeps == 1
MaxTicks == 2
MaxInFlight == 2
MaxFailures == 1

\* Order.js:65  expiresAt = Date.now() + 15 * 60 * 1000, in minutes
ReservationWindow == 15

Requests == 1..MaxReq
Sweeps == 1..MaxSweeps

VARIABLES txnSupported, now, products, carts, orders, payments,
          emailJobs, req, sweep,
          stock0, audit   \* history: the initial stock, and per order the number
                          \* of release and commit updates applied for its items

vars == <<txnSupported, now, products, carts, orders, payments,
          emailJobs, req, sweep, stock0, audit>>

\* ---------------------------------------------------------------- helpers
NoOrder == [userId |-> "none", items |-> <<>>, totalAmount |-> 0,
            status |-> "NONE", createdAt |-> 0, expiresAt |-> 0]

NoAudit == [released |-> 0, committed |-> 0]

\* Product.js:51-53
availableStock(p) == p.stock - p.reservedStock

\* faulty variant: an order counts as expired at the instant of its expiresAt
isExpired_Inclusive(o, t) == o.status = "PENDING_PAYMENT" /\ t >= o.expiresAt

\* Order.js:86-88
isExpired(o, t) == o.status = "PENDING_PAYMENT" /\ t > o.expiresAt

\* products.js:602  totalAmount += product.price * cartItem.quantity
RECURSIVE SumLines(_)
SumLines(items) ==
  IF items = <<>> THEN 0
  ELSE items[1].priceAtPurchase * items[1].quantity + SumLines(Tail(items))

\* faulty variant: the checkout deducts the stock instead of reserving it
ReserveOne_DeductsStock(prods, p, q) ==
  [prods EXCEPT ![p].stock = @ - q]

\* products.js:626-630  { $inc: { reservedStock: quantity } }
ReserveOne(prods, p, q) ==
  [prods EXCEPT ![p].reservedStock = @ + q]

\* faulty variant: the release leaves the reservation in place
ReleaseOne_KeepsReservation(prods, p, q) ==
  prods

\* products.js:688-692, 912-916  { $inc: { reservedStock: -quantity } }
ReleaseOne(prods, p, q) ==
  [prods EXCEPT ![p].reservedStock = @ - q]

\* faulty variant: the commit clears the reservation and keeps the stock
CommitOne_KeepsStock(prods, p, q) ==
  [prods EXCEPT ![p].reservedStock = @ - q]

\* products.js:761-770  { $inc: { stock: -quantity, reservedStock: -quantity } }
CommitOne(prods, p, q) ==
  [prods EXCEPT ![p].stock = @ - q, ![p].reservedStock = @ - q]

RECURSIVE ReserveAll(_, _)
ReserveAll(prods, items) ==
  IF items = <<>> THEN prods
  ELSE ReserveAll(ReserveOne(prods, items[1].productId, items[1].quantity),
                  Tail(items))

RECURSIVE ReleaseAll(_, _)
ReleaseAll(prods, items) ==
  IF items = <<>> THEN prods
  ELSE ReleaseAll(ReleaseOne(prods, items[1].productId, items[1].quantity),
                  Tail(items))

RECURSIVE CommitAll(_, _)
CommitAll(prods, items) ==
  IF items = <<>> THEN prods
  ELSE CommitAll(CommitOne(prods, items[1].productId, items[1].quantity),
                 Tail(items))

\* a write conflict: a product the transaction writes changed since its snapshot
ProductConflict(snap, items) ==
  \E k \in 1..Len(items) : products[items[k].productId] /= snap[items[k].productId]

IdleReq == [kind |-> "none", pc |-> "idle", user |-> "none", oid |-> 0,
            order |-> NoOrder, i |-> 0, target |-> "NONE", session |-> FALSE,
            runs |-> 0, snap |-> <<>>, csnap |-> <<>>, result |-> "none",
            message |-> "",
            productId |-> "none", quantity |-> 0,   \* the body of POST /cart/items
            sent |-> "none"]   \* the response already sent by a callback whose
                               \* transaction then failed to commit

IdleSweep == [pc |-> "idle", batch |-> <<>>, k |-> 0, i |-> 0, session |-> FALSE,
              snap |-> <<>>, osnap |-> NoOrder,
              errors |-> 0]   \* orders of the tick whose processing threw

\* the handler has responded; its locals are gone.  A second response of the
\* same request throws (headers already sent) and the client keeps the first.
Finish(me, res) == [IdleReq EXCEPT !.kind = me.kind, !.pc = "done", !.user = me.user,
                                   !.oid = me.oid, !.runs = me.runs, !.sent = me.sent,
                                   !.result = IF me.sent /= "none" THEN me.sent ELSE res]

Done(r, res) == Finish(req[r], res)

\* database failures so far: checkouts that ended in an error, orders whose
\* processing by a sweep tick threw, and transactions that failed to commit
Failures ==
  LET RECURSIVE Errors(_)
      Errors(S) == IF S = {} THEN 0
                   ELSE LET s == CHOOSE x \in S : TRUE
                        IN sweep[s].errors + Errors(S \ {s})
  IN Cardinality({q \in Requests : req[q].kind = "checkout" /\ req[q].result = "error500"})
       + Errors(Sweeps)
       + Cardinality({q \in Requests : req[q].sent /= "none"})

\* slots are taken in order, each once
InFlight == {q \in Requests : req[q].pc \notin {"idle", "done"}}

CanStart(r) ==
  /\ req[r].pc = "idle"
  /\ \A q \in Requests : q < r => req[q].pc /= "idle"
  /\ Cardinality(InFlight) < MaxInFlight

\* ---------------------------------------------------------------- initial state
\* the carts the users filled before checking out (Cart.js:67-77 addItem): one
\* line per product
InitCarts ==
  { [u \in Users |-> IF u = "u1"
                     THEN <<[productId |-> "p1", quantity |-> q1],
                            [productId |-> "p2", quantity |-> 1]>>
                     ELSE <<[productId |-> "p1", quantity |-> q2]>>] :
      q1 \in 1..MaxQty, q2 \in 1..MaxQty }

Init ==
  /\ txnSupported \in BOOLEAN
  /\ now = 0
  /\ \E s \in 1..MaxStock :
       products = [p \in Products |->
                     [stock |-> IF p = "p1" THEN s ELSE MaxStock, reservedStock |-> 0,
                      isActive |-> TRUE, price |-> 1]]
  /\ carts \in InitCarts
  /\ orders = <<>>
  /\ stock0 = [p \in Products |-> products[p].stock]
  /\ audit = <<>>
  /\ payments = <<>>
  /\ emailJobs = <<>>
  /\ req = [r \in Requests |-> IdleReq]
  /\ sweep = [s \in Sweeps |-> IdleSweep]

\* ---------------------------------------------------------------- POST /checkout
\* faulty variant: the validation loop does not look at isActive
RECURSIVE ValidateCart_IgnoresActive(_, _)
ValidateCart_IgnoresActive(cart, prods) ==
  IF cart = <<>> THEN "ok"
  ELSE IF availableStock(prods[cart[1].productId]) < cart[1].quantity THEN "insufficient"
  ELSE ValidateCart_IgnoresActive(Tail(cart), prods)

\* products.js:584-603  the first line that fails decides the error
RECURSIVE ValidateCart(_, _)
ValidateCart(cart, prods) ==
  IF cart = <<>> THEN "ok"
  ELSE LET product == prods[cart[1].productId] IN
       IF ~product.isActive THEN "inactive"
       ELSE IF availableStock(product) < cart[1].quantity THEN "insufficient"
       ELSE ValidateCart(Tail(cart), prods)

\* products.js:595-600  orderItems.push({productId, quantity, priceAtPurchase})
OrderItems(cart, prods) ==
  [k \in 1..Len(cart) |->
     [productId |-> cart[k].productId, quantity |-> cart[k].quantity,
      priceAtPurchase |-> prods[cart[k].productId].price]]

\* products.js:606-614; Order.js:62-67 expiresAt default, Order.js:68-70 timestamps
NewOrder(u, cart, prods, t) ==
  [userId |-> u, items |-> OrderItems(cart, prods),
   totalAmount |-> SumLines(OrderItems(cart, prods)),
   status |-> "PENDING_PAYMENT", createdAt |-> t,
   expiresAt |-> t + ReservationWindow]

\* faulty variant: the update leaves a line in the cart
ClearedCart_KeepsLine == <<[productId |-> "p1", quantity |-> 1]>>

\* products.js:635-639  { items: [], totalItems: 0, totalAmount: 0 }
ClearedCart == <<>>

\* faulty variant: the fallback passes the session to the callback again
CheckoutReadBody_KeepsSession(me) ==
  LET u == me.user
      cart == carts[u]
      v == ValidateCart(cart, products)
  IN IF cart = <<>> THEN Finish(me, "empty_cart")
     ELSE IF v /= "ok" THEN Finish(me, v)
     ELSE IF me.session /\ ~txnSupported /\ me.runs < 2
          THEN [me EXCEPT !.pc = "c_read", !.session = TRUE, !.runs = @ + 1]
     ELSE [me EXCEPT !.order = NewOrder(u, cart, products, now),
                     !.pc = IF txnSupported THEN "c_begin" ELSE "c_save"]

\* products.js:573-614: Cart.findOne(...).populate(...) without the session, the
\* validation loop and new Order(...).  With a session and no replica set the
\* following orderDoc.save({ session }) is rejected and the callback runs again
\* with session = null (products.js:547-556).
CheckoutReadBody(me) ==
  LET u == me.user
      cart == carts[u]
      v == ValidateCart(cart, products)
  IN IF cart = <<>> THEN Finish(me, "empty_cart")
     ELSE IF v /= "ok" THEN Finish(me, v)
     ELSE IF me.session /\ ~txnSupported
          THEN [me EXCEPT !.pc = "c_read", !.session = FALSE, !.runs = @ + 1]
     ELSE [me EXCEPT !.order = NewOrder(u, cart, products, now),
                     !.pc = IF txnSupported THEN "c_begin" ELSE "c_save"]

\* faulty variant: the validation loop reserves each line as it passes, so a
\* rejection at a later line leaves the earlier lines reserved
StartCheckout_ReservesValidLines(r, u) ==
  LET RECURSIVE Passing(_)
      Passing(cart) ==
        IF cart = <<>> \/ ValidateCart(<<cart[1]>>, products) /= "ok" THEN <<>>
        ELSE <<cart[1]>> \o Passing(Tail(cart))
      me == CheckoutReadBody([IdleReq EXCEPT !.kind = "checkout", !.user = u,
                                             !.session = TRUE, !.runs = 1])
  IN /\ CanStart(r)
     /\ req' = [req EXCEPT ![r] = me]
     /\ products' = IF me.result \in {"inactive", "insufficient"}
                    THEN ReserveAll(products, Passing(carts[u]))
                    ELSE products
     /\ UNCHANGED <<txnSupported, stock0, audit, now, carts, orders, payments,
                    emailJobs, sweep>>

\* a checkout request arrives and runs up to its first await on the database
StartCheckout(r, u) ==
  /\ CanStart(r)
  /\ req' = [req EXCEPT ![r] =
               CheckoutReadBody([IdleReq EXCEPT !.kind = "checkout", !.user = u,
                                                !.session = TRUE, !.runs = 1])]
  /\ UNCHANGED <<txnSupported, stock0, audit, now, products, carts, orders, payments,
                 emailJobs, sweep>>

\* the callback runs again: after a write conflict, or with session = null
CheckoutRead(r) ==
  /\ req[r].kind = "checkout" /\ req[r].pc = "c_read"
  /\ req' = [req EXCEPT ![r] = CheckoutReadBody(req[r])]
  /\ UNCHANGED <<txnSupported, stock0, audit, now, products, carts, orders, payments,
                 emailJobs, sweep>>

\* products.js:617-618: the first operation with the session starts the
\* transaction and fixes its snapshot
CheckoutBegin(r) ==
  /\ req[r].kind = "checkout" /\ req[r].pc = "c_begin"
  /\ req' = [req EXCEPT ![r] = [req[r] EXCEPT !.pc = "c_commit", !.snap = products,
                                              !.csnap = carts[req[r].user]]]
  /\ UNCHANGED <<txnSupported, stock0, audit, now, products, carts, orders, payments,
                 emailJobs, sweep>>

\* products.js:617-649 inside session.withTransaction (544-546): save the order,
\* reserve every line, clear the cart, respond 201, commit.  A write conflict
\* aborts the transaction and withTransaction calls the callback again.  In a
\* callback that runs again after its response was sent, res.status(201).json
\* (641) throws and the transaction is aborted.
CheckoutCommit(r) ==
  /\ req[r].kind = "checkout" /\ req[r].pc = "c_commit"
  /\ LET u == req[r].user
         o == req[r].order
     IN IF ProductConflict(req[r].snap, o.items) \/ carts[u] /= req[r].csnap
        THEN /\ req' = [req EXCEPT ![r] = [req[r] EXCEPT !.pc = "c_read", !.runs = @ + 1,
                                                        !.order = NoOrder,
                                                        !.snap = <<>>, !.csnap = <<>>]]
             /\ UNCHANGED <<orders, products, carts, audit>>
        ELSE IF req[r].sent /= "none"
        THEN /\ req' = [req EXCEPT ![r] = Done(r, "error500")]
             /\ UNCHANGED <<orders, products, carts, audit>>
        ELSE /\ orders' = Append(orders, o)
             /\ audit' = Append(audit, NoAudit)
             /\ products' = ReserveAll(products, o.items)
             /\ carts' = [carts EXCEPT ![u] = ClearedCart]
             /\ req' = [req EXCEPT ![r] = [Done(r, "created") EXCEPT !.oid = Len(orders) + 1]]
  /\ UNCHANGED <<txnSupported, stock0, now, payments, emailJobs, sweep>>

\* products.js:619-621  orderDoc.save() without a session
CheckoutSave(r) ==
  /\ req[r].kind = "checkout" /\ req[r].pc = "c_save"
  /\ orders' = Append(orders, req[r].order)
  /\ audit' = Append(audit, NoAudit)
  /\ req' = [req EXCEPT ![r] = [req[r] EXCEPT !.pc = "c_reserve", !.i = 1,
                                              !.oid = Len(orders) + 1]]
  /\ UNCHANGED <<txnSupported, stock0, now, products, carts, payments,
                 emailJobs, sweep>>

\* products.js:624-631  one findByIdAndUpdate per cart line, without a session
CheckoutReserve(r) ==
  /\ req[r].kind = "checkout" /\ req[r].pc = "c_reserve"
  /\ LET items == req[r].order.items
         i == req[r].i
     IN /\ products' = ReserveOne(products, items[i].productId, items[i].quantity)
        /\ req' = [req EXCEPT ![r] =
                     IF i < Len(items) THEN [req[r] EXCEPT !.i = i + 1]
                     ELSE [req[r] EXCEPT !.pc = "c_clear", !.i = 0]]
  /\ UNCHANGED <<txnSupported, stock0, audit, now, carts, orders, payments,
                 emailJobs, sweep>>

\* products.js:634-648  clear the cart, respond 201
CheckoutClear(r) ==
  /\ req[r].kind = "checkout" /\ req[r].pc = "c_clear"
  /\ carts' = [carts EXCEPT ![req[r].user] = ClearedCart]
  /\ req' = [req EXCEPT ![r] = Done(r, "created")]
  /\ UNCHANGED <<txnSupported, stock0, audit, now, products, orders, payments,
                 emailJobs, sweep>>

\* products.js:617-639, 650-652: a database operation of the checkout rejects
\* (connection lost, write error) and the error reaches next(error).  In a
\* transaction withTransaction aborts and nothing the callback wrote remains;
\* without a session the writes made before the failing one stay: the order
\* from c_reserve on, the reservations of the lines before line i.
CheckoutFail(r) ==
  /\ req[r].kind = "checkout"
  /\ req[r].pc \in {"c_commit", "c_save", "c_reserve", "c_clear"}
  /\ Failures < MaxFailures
  /\ req' = [req EXCEPT ![r] = Done(r, "error500")]
  /\ UNCHANGED <<txnSupported, stock0, audit, now, products, carts, orders, payments,
                 emailJobs, sweep>>

\* products.js:544-546, 617-649: every write of the callback succeeded and the
\* 201 was sent (641), then the commit that withTransaction makes after the
\* callback returns is rejected and nothing the callback wrote is stored.
\* withTransaction runs the callback again when the error is transient
\* (rerun), and lets any other error reach next(error) (650-652) of a request
\* that was already answered.
CheckoutCommitFail(r, rerun) ==
  /\ req[r].kind = "checkout" /\ req[r].pc = "c_commit"
  /\ ~ProductConflict(req[r].snap, req[r].order.items)
  /\ carts[req[r].user] = req[r].csnap
  /\ req[r].sent = "none"
  /\ Failures < MaxFailures
  /\ req' = [req EXCEPT ![r] =
               IF rerun
               THEN [req[r] EXCEPT !.pc = "c_read", !.runs = @ + 1, !.order = NoOrder,
                                   !.snap = <<>>, !.csnap = <<>>, !.sent = "created"]
               ELSE Finish([req[r] EXCEPT !.sent = "created"], "created")]
  /\ UNCHANGED <<txnSupported, stock0, audit, now, products, carts, orders, payments,
                 emailJobs, sweep>>

Checkout(r) ==
  \/ \E u \in Users : StartCheckout(r, u)
  \/ CheckoutRead(r)
  \/ CheckoutBegin(r)
  \/ CheckoutCommit(r)
  \/ CheckoutSave(r)
  \/ CheckoutReserve(r)
  \/ CheckoutClear(r)

\* ---------------------------------------------------------------- POST /:id/pay
\* faulty variant: the payment is for the items at the products' current prices
NewPayment_CurrentPrices(oid, o, st) ==
  LET RECURSIVE Amount(_)
      Amount(items) ==
        IF items = <<>> THEN 0
        ELSE products[items[1].productId].price * items[1].quantity + Amount(Tail(items))
  IN [orderId |-> oid, amount |-> Amount(o.items), status |-> st,
      failureReason |-> IF st = "FAILED" THEN "Payment gateway declined transaction"
                        ELSE "none"]

\* products.js:720-726 and 737-743
NewPayment(oid, o, st) ==
  [orderId |-> oid, amount |-> o.totalAmount, status |-> st,
   failureReason |-> IF st = "FAILED" THEN "Payment gateway declined transaction"
                     ELSE "none"]

\* faulty variant: one message for every status
StatusError_Generic(st) == "invalid_status"

\* products.js:699-713  the status-specific message
StatusError(st) ==
  CASE st = "PAID" -> "already_paid"
    [] st = "CANCELLED" -> "cancelled"
    [] st = "SHIPPED" -> "already_shipped"
    [] st = "DELIVERED" -> "already_delivered"
    [] OTHER -> "invalid_status"

\* emailQueue.js:131-153  addEmailJob returns the job when the queue is
\* initialized and its add resolves (enqueueOk), and throws otherwise
EnqueueSucceeds(enqueueOk) == enqueueOk

\* faulty variant: the expiry check comes before the ownership check
PayFindBody_ExpiryBeforeOwner(req0, paymentSuccess) ==
  LET oid == req0.oid
      exists == oid \in 1..Len(orders)
      o == IF exists THEN orders[oid] ELSE NoOrder
      me == [req0 EXCEPT !.order = o, !.session = txnSupported,
                         !.runs = IF req0.session /\ ~txnSupported THEN @ + 1 ELSE @,
                         !.snap = IF txnSupported THEN products ELSE <<>>]
  IN IF ~exists THEN Finish(me, "not_found")
     ELSE IF o.status = "PENDING_PAYMENT" /\ isExpired(o, now)
          THEN [me EXCEPT !.pc = IF txnSupported THEN "p_exp_commit" ELSE "p_exp_save"]
     ELSE IF o.userId /= me.user THEN Finish(me, "forbidden")
     ELSE IF o.status /= "PENDING_PAYMENT" THEN Finish(me, StatusError(o.status))
     ELSE IF ~paymentSuccess
          THEN IF txnSupported THEN Finish(me, "declined")
               ELSE [me EXCEPT !.pc = "p_fail_save"]
     ELSE [me EXCEPT !.pc = IF txnSupported THEN "p_commit" ELSE "p_pay_save"]

\* products.js:661-734: Order.findById, the ownership, expiry and status checks
\* and the simulated payment.  Without a replica set the findById with the
\* session is rejected first and the callback runs again with session = null.
\* In a transaction the FAILED payment saved at 727-728 is discarded by the
\* throw at 733.
PayFindBody(req0, paymentSuccess) ==
  LET oid == req0.oid
      exists == oid \in 1..Len(orders)
      o == IF exists THEN orders[oid] ELSE NoOrder
      me == [req0 EXCEPT !.order = o, !.session = txnSupported,
                         !.runs = IF req0.session /\ ~txnSupported THEN @ + 1 ELSE @,
                         !.snap = IF txnSupported THEN products ELSE <<>>]
  IN IF ~exists THEN Finish(me, "not_found")
     ELSE IF o.userId /= me.user THEN Finish(me, "forbidden")
     ELSE IF o.status = "PENDING_PAYMENT" /\ isExpired(o, now)
          THEN [me EXCEPT !.pc = IF txnSupported THEN "p_exp_commit" ELSE "p_exp_save"]
     ELSE IF o.status /= "PENDING_PAYMENT" THEN Finish(me, StatusError(o.status))
     ELSE IF ~paymentSuccess
          THEN IF txnSupported THEN Finish(me, "declined")
               ELSE [me EXCEPT !.pc = "p_fail_save"]
     ELSE [me EXCEPT !.pc = IF txnSupported THEN "p_commit" ELSE "p_pay_save"]

\* a pay request arrives and runs up to its first write
StartPay(r, u, oid, paymentSuccess) ==
  /\ CanStart(r)
  /\ req' = [req EXCEPT ![r] =
               PayFindBody([IdleReq EXCEPT !.kind = "pay", !.user = u, !.oid = oid,
                                           !.session = TRUE, !.runs = 1], paymentSuccess)]
  /\ UNCHANGED <<txnSupported, stock0, audit, now, products, carts, orders, payments,
                 emailJobs, sweep>>

\* withTransaction runs the callback again after a write conflict
PayFind(r, paymentSuccess) ==
  /\ req[r].kind = "pay" /\ req[r].pc = "p_find"
  /\ req' = [req EXCEPT ![r] = PayFindBody(req[r], paymentSuccess)]
  /\ UNCHANGED <<txnSupported, stock0, audit, now, products, carts, orders, payments,
                 emailJobs, sweep>>

\* the order or one of its products changed since the transaction's snapshot
PayConflict(r) ==
  \/ orders[req[r].oid] /= req[r].order
  \/ ProductConflict(req[r].snap, req[r].order.items)

Retry(r, pc) == [req[r] EXCEPT !.pc = pc, !.runs = @ + 1, !.order = NoOrder,
                               !.snap = <<>>, !.csnap = <<>>]

\* products.js:676-696 in a transaction: the CANCELLED save and the releases
\* are discarded by the throw at 695 (withTransaction aborts, 544-546)
PayExpiredAbort(r) ==
  /\ req[r].kind = "pay" /\ req[r].pc = "p_exp_commit"
  /\ req' = [req EXCEPT ![r] = IF PayConflict(r) THEN Retry(r, "p_find")
                               ELSE Done(r, "expired")]
  /\ UNCHANGED <<txnSupported, stock0, audit, now, products, carts, orders, payments,
                 emailJobs, sweep>>

\* products.js:678-683 without a session: order.status = 'CANCELLED'; order.save()
PayExpiredSave(r) ==
  /\ req[r].kind = "pay" /\ req[r].pc = "p_exp_save"
  /\ orders' = [orders EXCEPT ![req[r].oid].status = "CANCELLED"]
  /\ req' = [req EXCEPT ![r] = [req[r] EXCEPT !.order.status = "CANCELLED",
                                              !.pc = "p_exp_release", !.i = 1]]
  /\ UNCHANGED <<txnSupported, stock0, audit, now, products, carts, payments,
                 emailJobs, sweep>>

\* products.js:686-695 without a session: one release per item, then the throw
PayExpiredRelease(r) ==
  /\ req[r].kind = "pay" /\ req[r].pc = "p_exp_release"
  /\ LET items == req[r].order.items
         i == req[r].i
     IN /\ products' = ReleaseOne(products, items[i].productId, items[i].quantity)
        /\ audit' = [audit EXCEPT ![req[r].oid].released = @ + 1]
        /\ req' = [req EXCEPT ![r] =
                     IF i < Len(items) THEN [req[r] EXCEPT !.i = i + 1]
                     ELSE Done(r, "expired")]
  /\ UNCHANGED <<txnSupported, stock0, now, carts, orders, payments,
                 emailJobs, sweep>>

\* faulty variant: a declined payment also cancels the order
PayFailedSave_CancelsOrder(r) ==
  /\ req[r].kind = "pay" /\ req[r].pc = "p_fail_save"
  /\ payments' = Append(payments, NewPayment(req[r].oid, req[r].order, "FAILED"))
  /\ orders' = [orders EXCEPT ![req[r].oid].status = "CANCELLED"]
  /\ req' = [req EXCEPT ![r] = Done(r, "declined")]
  /\ UNCHANGED <<txnSupported, stock0, audit, now, products, carts,
                 emailJobs, sweep>>

\* products.js:720-733 without a session: failedPayment.save(), then the throw
PayFailedSave(r) ==
  /\ req[r].kind = "pay" /\ req[r].pc = "p_fail_save"
  /\ payments' = Append(payments, NewPayment(req[r].oid, req[r].order, "FAILED"))
  /\ req' = [req EXCEPT ![r] = Done(r, "declined")]
  /\ UNCHANGED <<txnSupported, stock0, audit, now, products, carts, orders,
                 emailJobs, sweep>>

\* products.js:737-796 in a transaction: SUCCESS payment, order PAID, commit of
\* every item, addEmailJob, respond 200, commit.  An error of addEmailJob
\* leaves the callback and aborts the transaction.  In a callback that runs
\* again after its response was sent, the job is enqueued, res.status(200).json
\* (783) throws and the transaction is aborted.
PayCommit(r, enqueueOk) ==
  /\ req[r].kind = "pay" /\ req[r].pc = "p_commit"
  /\ LET oid == req[r].oid
         o == req[r].order
     IN IF PayConflict(r)
        THEN /\ req' = [req EXCEPT ![r] = Retry(r, "p_find")]
             /\ UNCHANGED <<payments, orders, products, emailJobs, audit>>
        ELSE IF ~EnqueueSucceeds(enqueueOk)
        THEN /\ req' = [req EXCEPT ![r] = Done(r, "error500")]
             /\ UNCHANGED <<payments, orders, products, emailJobs, audit>>
        ELSE IF req[r].sent /= "none"
        THEN /\ emailJobs' = Append(emailJobs, oid)
             /\ req' = [req EXCEPT ![r] = Done(r, "error500")]
             /\ UNCHANGED <<payments, orders, products, audit>>
        ELSE /\ payments' = Append(payments, NewPayment(oid, o, "SUCCESS"))
             /\ orders' = [orders EXCEPT ![oid].status = "PAID"]
             /\ products' = CommitAll(products, o.items)
             /\ audit' = [audit EXCEPT ![oid].committed = @ + Len(o.items)]
             /\ emailJobs' = Append(emailJobs, oid)
             /\ req' = [req EXCEPT ![r] = Done(r, "paid")]
  /\ UNCHANGED <<txnSupported, stock0, now, carts, sweep>>

\* products.js:737-748 without a session: paymentDoc.save()
PaySaveSuccess(r) ==
  /\ req[r].kind = "pay" /\ req[r].pc = "p_pay_save"
  /\ payments' = Append(payments, NewPayment(req[r].oid, req[r].order, "SUCCESS"))
  /\ req' = [req EXCEPT ![r] = [req[r] EXCEPT !.pc = "p_order_save"]]
  /\ UNCHANGED <<txnSupported, stock0, audit, now, products, carts, orders,
                 emailJobs, sweep>>

\* products.js:751-756 without a session: order.status = 'PAID'; order.save()
PayOrderSave(r) ==
  /\ req[r].kind = "pay" /\ req[r].pc = "p_order_save"
  /\ orders' = [orders EXCEPT ![req[r].oid].status = "PAID"]
  /\ req' = [req EXCEPT ![r] = [req[r] EXCEPT !.order.status = "PAID",
                                              !.pc = "p_commit_stock", !.i = 1]]
  /\ UNCHANGED <<txnSupported, stock0, audit, now, products, carts, payments,
                 emailJobs, sweep>>

\* products.js:759-771 without a session: one commit per item
PayCommitStock(r) ==
  /\ req[r].kind = "pay" /\ req[r].pc = "p_commit_stock"
  /\ LET items == req[r].order.items
         i == req[r].i
     IN /\ products' = CommitOne(products, items[i].productId, items[i].quantity)
        /\ audit' = [audit EXCEPT ![req[r].oid].committed = @ + 1]
        /\ req' = [req EXCEPT ![r] =
                     IF i < Len(items) THEN [req[r] EXCEPT !.i = i + 1]
                     ELSE [req[r] EXCEPT !.pc = "p_email", !.i = 0]]
  /\ UNCHANGED <<txnSupported, stock0, now, carts, orders, payments,
                 emailJobs, sweep>>

\* products.js:774-795 without a session: addEmailJob, then respond 200; an
\* error of addEmailJob goes to next(error) (797-799)
PayEmail(r, enqueueOk) ==
  /\ req[r].kind = "pay" /\ req[r].pc = "p_email"
  /\ IF EnqueueSucceeds(enqueueOk)
     THEN /\ emailJobs' = Append(emailJobs, req[r].oid)
          /\ req' = [req EXCEPT ![r] = Done(r, "paid")]
     ELSE /\ req' = [req EXCEPT ![r] = Done(r, "error500")]
          /\ UNCHANGED emailJobs
  /\ UNCHANGED <<txnSupported, stock0, audit, now, products, carts, orders, payments,
                 sweep>>

\* products.js:544-546, 737-796: every write of the callback succeeded, the
\* confirmation was enqueued (774) and the 200 was sent (783), then the commit
\* is rejected: the job stays in the queue and nothing the callback wrote is
\* stored.  withTransaction runs the callback again when the error is
\* transient (rerun), and lets any other error reach next(error) (797-799).
PayCommitFail(r, rerun) ==
  /\ req[r].kind = "pay" /\ req[r].pc = "p_commit"
  /\ ~PayConflict(r)
  /\ req[r].sent = "none"
  /\ Failures < MaxFailures
  /\ emailJobs' = Append(emailJobs, req[r].oid)
  /\ req' = [req EXCEPT ![r] =
               IF rerun THEN [Retry(r, "p_find") EXCEPT !.sent = "paid"]
               ELSE Finish([req[r] EXCEPT !.sent = "paid"], "paid")]
  /\ UNCHANGED <<txnSupported, stock0, audit, now, products, carts, orders, payments,
                 sweep>>

Pay(r) ==
  \/ \E u \in Users, oid \in 1..(Len(orders) + 1), paymentSuccess \in BOOLEAN :
       StartPay(r, u, oid, paymentSuccess)
  \/ \E paymentSuccess \in BOOLEAN : PayFind(r, paymentSuccess)
  \/ PayExpiredAbort(r)
  \/ PayExpiredSave(r)
  \/ PayExpiredRelease(r)
  \/ PayFailedSave(r)
  \/ \E enqueueOk \in BOOLEAN : PayCommit(r, enqueueOk)
  \/ PaySaveSuccess(r)
  \/ PayOrderSave(r)
  \/ PayCommitStock(r)
  \/ \E enqueueOk \in BOOLEAN : PayEmail(r, enqueueOk)

\* ---------------------------------------------------------------- expiry sweeper
\* faulty variant: the query leaves an expired order a second window of grace
SweepSelects_GraceWindow(o, t) ==
  o.status = "PENDING_PAYMENT" /\ o.expiresAt + 2 * ReservationWindow < t

\* faulty variant: the query selects every order past its expiresAt
SweepSelects_IgnoresStatus(o, t) == o.expiresAt < t

\* products.js:893-896  { status: 'PENDING_PAYMENT', expiresAt: { $lt: now } }
SweepSelects(o, t) == o.status = "PENDING_PAYMENT" /\ o.expiresAt < t

RECURSIVE ExpiredFrom(_, _)
ExpiredFrom(k, t) ==
  IF k > Len(orders) THEN <<>>
  ELSE IF SweepSelects(orders[k], t)
       THEN <<[oid |-> k, order |-> orders[k]]>> \o ExpiredFrom(k + 1, t)
       ELSE ExpiredFrom(k + 1, t)

SweepNext(s) ==
  IF sweep[s].k < Len(sweep[s].batch)
  THEN [sweep[s] EXCEPT !.k = @ + 1, !.i = 1,
                        !.pc = IF txnSupported THEN "s_begin" ELSE "s_save",
                        !.snap = <<>>, !.osnap = NoOrder]
  ELSE [IdleSweep EXCEPT !.pc = "done", !.errors = sweep[s].errors]

\* products.js:891-898  a tick of setInterval: Order.find of the expired orders;
\* a tick that finds none ends at once
SweepFind(s) ==
  /\ sweep[s].pc = "idle"
  /\ \A q \in Sweeps : q < s => sweep[q].pc /= "idle"
  /\ LET batch == ExpiredFrom(1, now)
     IN sweep' = [sweep EXCEPT ![s] =
          IF batch = <<>> THEN IdleSweep
          ELSE [IdleSweep EXCEPT !.batch = batch, !.k = 1, !.i = 1,
                                 !.pc = IF txnSupported THEN "s_begin" ELSE "s_save"]]
  /\ UNCHANGED <<txnSupported, stock0, audit, now, products, carts, orders, payments,
                 emailJobs, req>>

\* products.js:902-904  order.save({ session }) starts the transaction
SweepBegin(s) ==
  /\ sweep[s].pc = "s_begin"
  /\ sweep' = [sweep EXCEPT ![s] = [sweep[s] EXCEPT !.pc = "s_commit", !.snap = products,
                                      !.osnap = orders[sweep[s].batch[sweep[s].k].oid]]]
  /\ UNCHANGED <<txnSupported, stock0, audit, now, products, carts, orders, payments,
                 emailJobs, req>>

\* products.js:900-918 in a transaction: CANCELLED and the releases commit
\* together; on a write conflict withTransaction calls the callback again
SweepCommit(s) ==
  /\ sweep[s].pc = "s_commit"
  /\ LET e == sweep[s].batch[sweep[s].k]
     IN IF orders[e.oid] /= sweep[s].osnap \/ ProductConflict(sweep[s].snap, e.order.items)
        THEN /\ sweep' = [sweep EXCEPT ![s] = [sweep[s] EXCEPT !.pc = "s_begin",
                                                 !.snap = <<>>, !.osnap = NoOrder]]
             /\ UNCHANGED <<orders, products, audit>>
        ELSE /\ orders' = [orders EXCEPT ![e.oid].status = "CANCELLED"]
             /\ products' = ReleaseAll(products, e.order.items)
             /\ audit' = [audit EXCEPT ![e.oid].released = @ + Len(e.order.items)]
             /\ sweep' = [sweep EXCEPT ![s] = SweepNext(s)]
  /\ UNCHANGED <<txnSupported, stock0, now, carts, payments, emailJobs, req>>

\* products.js:902-907 without a session: order.status = 'CANCELLED'; order.save()
SweepSave(s) ==
  /\ sweep[s].pc = "s_save"
  /\ orders' = [orders EXCEPT ![sweep[s].batch[sweep[s].k].oid].status = "CANCELLED"]
  /\ sweep' = [sweep EXCEPT ![s] = [sweep[s] EXCEPT !.pc = "s_release", !.i = 1]]
  /\ UNCHANGED <<txnSupported, stock0, audit, now, products, carts, payments,
                 emailJobs, req>>

\* products.js:910-917 without a session: one release per item
SweepRelease(s) ==
  /\ sweep[s].pc = "s_release"
  /\ LET items == sweep[s].batch[sweep[s].k].order.items
         i == sweep[s].i
     IN /\ products' = ReleaseOne(products, items[i].productId, items[i].quantity)
        /\ audit' = [audit EXCEPT ![sweep[s].batch[sweep[s].k].oid].released = @ + 1]
        /\ sweep' = [sweep EXCEPT ![s] =
                       IF i < Len(items) THEN [sweep[s] EXCEPT !.i = i + 1]
                       ELSE SweepNext(s)]
  /\ UNCHANGED <<txnSupported, stock0, now, carts, orders, payments,
                 emailJobs, req>>

\* products.js:900-921: a database operation fails while one order of the batch
\* is processed; the catch logs the error and the loop goes on with the next
\* order.  In a transaction the CANCELLED save and the releases are aborted;
\* without a session the writes made before the failing one stay.
SweepFail(s) ==
  /\ sweep[s].pc \in {"s_commit", "s_save", "s_release"}
  /\ Failures < MaxFailures
  /\ sweep' = [sweep EXCEPT ![s] = [SweepNext(s) EXCEPT !.errors = @ + 1]]
  /\ UNCHANGED <<txnSupported, stock0, audit, now, products, carts, orders, payments,
                 emailJobs, req>>

Sweeper(s) ==
  \/ SweepFind(s)
  \/ SweepBegin(s)
  \/ SweepCommit(s)
  \/ SweepSave(s)
  \/ SweepRelease(s)

\* ---------------------------------------------------------------- admin
Statuses == {"PENDING_PAYMENT", "PAID", "SHIPPED", "DELIVERED", "CANCELLED"}

\* faulty variant: a cancelled order can be reopened
validTransitions_ReopensCancelled(st) ==
  CASE st = "PENDING_PAYMENT" -> {"PAID", "CANCELLED"}
    [] st = "PAID" -> {"SHIPPED", "CANCELLED"}
    [] st = "SHIPPED" -> {"DELIVERED"}
    [] st = "CANCELLED" -> {"PENDING_PAYMENT"}
    [] OTHER -> {}

\* part_001:117-123
validTransitions(st) ==
  CASE st = "PENDING_PAYMENT" -> {"PAID", "CANCELLED"}
    [] st = "PAID" -> {"SHIPPED", "CANCELLED"}
    [] st = "SHIPPED" -> {"DELIVERED"}
    [] OTHER -> {}

\* part_001:128  `Invalid status transition from ${order.status} to ${status}`
InvalidTransitionMessage(from, to) ==
  "Invalid status transition from " \o from \o " to " \o to

\* part_001:104-130  the request arrives: Order.findById and the transition check
StatusFind(r, oid, status) ==
  /\ CanStart(r)
  /\ LET exists == oid \in 1..Len(orders)
         me == [IdleReq EXCEPT !.kind = "status", !.oid = oid, !.target = status,
                               !.runs = 1]
     IN req' = [req EXCEPT ![r] =
          IF ~exists THEN Finish(me, "not_found")
          ELSE IF status \notin validTransitions(orders[oid].status)
               THEN [Finish(me, "invalid_transition") EXCEPT
                       !.message = InvalidTransitionMessage(orders[oid].status, status)]
          ELSE [me EXCEPT !.order = orders[oid], !.pc = "a_save"]]
  /\ UNCHANGED <<txnSupported, stock0, audit, now, products, carts, orders, payments,
                 emailJobs, sweep>>

\* faulty variant: the status update also restarts the reservation window
StatusSave_ExtendsExpiry(r) ==
  /\ req[r].kind = "status" /\ req[r].pc = "a_save"
  /\ orders' = [orders EXCEPT ![req[r].oid].status = req[r].target,
                              ![req[r].oid].expiresAt = now + ReservationWindow]
  /\ req' = [req EXCEPT ![r] = Done(r, "updated")]
  /\ UNCHANGED <<txnSupported, stock0, audit, now, products, carts, payments,
                 emailJobs, sweep>>

\* part_001:133-147  order.status = status; order.save(); respond 200
StatusSave(r) ==
  /\ req[r].kind = "status" /\ req[r].pc = "a_save"
  /\ orders' = [orders EXCEPT ![req[r].oid].status = req[r].target]
  /\ req' = [req EXCEPT ![r] = Done(r, "updated")]
  /\ UNCHANGED <<txnSupported, stock0, audit, now, products, carts, payments,
                 emailJobs, sweep>>

\* products.js:109-134 with productUpdateSchema (part_002:54-62):
\* Product.findByIdAndUpdate(id, req.body) with a stock, price or isActive field
ProductUpdate(r, p, field, value) ==
  /\ CanStart(r)
  /\ products' = [products EXCEPT ![p] =
                    CASE field = "stock" -> [@ EXCEPT !.stock = value]
                      [] field = "price" -> [@ EXCEPT !.price = value]
                      [] OTHER -> [@ EXCEPT !.isActive = (value = 1)]]
  /\ products' /= products
  /\ req' = [req EXCEPT ![r] = Finish([IdleReq EXCEPT !.kind = "product", !.runs = 1],
                                      "updated")]
  /\ UNCHANGED <<txnSupported, stock0, audit, now, carts, orders, payments,
                 emailJobs, sweep>>

Admin(r) ==
  \/ \E oid \in 1..(Len(orders) + 1), status \in Statuses : StatusFind(r, oid, status)
  \/ StatusSave(r)
  \/ \E p \in Products :
       \/ \E v \in 0..MaxStock : ProductUpdate(r, p, "stock", v)
       \/ \E v \in 1..MaxPrice : ProductUpdate(r, p, "price", v)
       \/ \E v \in 0..1 : ProductUpdate(r, p, "isActive", v)

\* ---------------------------------------------------------------- POST /cart/items
\* part_000:182-200: the request arrives; Product.findById and the checks of
\* isActive and of availableStock against the quantity of this request
StartAddItem(r, u, p, q) ==
  /\ CanStart(r)
  /\ LET me == [IdleReq EXCEPT !.kind = "add", !.user = u, !.runs = 1,
                               !.productId = p, !.quantity = q]
     IN req' = [req EXCEPT ![r] =
          IF ~products[p].isActive THEN Finish(me, "inactive")
          ELSE IF availableStock(products[p]) < q THEN Finish(me, "insufficient")
          ELSE [me EXCEPT !.pc = "i_find"]]
  /\ UNCHANGED <<txnSupported, stock0, audit, now, products, carts, orders, payments,
                 emailJobs, sweep>>

\* part_000:203-206  Cart.findOne({ userId }): the request's copy of the cart
AddItemFind(r) ==
  /\ req[r].kind = "add" /\ req[r].pc = "i_find"
  /\ req' = [req EXCEPT ![r] = [req[r] EXCEPT !.pc = "i_save",
                                              !.csnap = carts[req[r].user]]]
  /\ UNCHANGED <<txnSupported, stock0, audit, now, products, carts, orders, payments,
                 emailJobs, sweep>>

\* the line of the cart for product p, 0 when there is none (Cart.js:67)
existingItem(cart, p) ==
  IF \E k \in 1..Len(cart) : cart[k].productId = p
  THEN CHOOSE k \in 1..Len(cart) :
         /\ cart[k].productId = p
         /\ \A j \in 1..(k - 1) : cart[j].productId /= p
  ELSE 0

\* part_000:209 and Cart.js:66-77 addItem: on the request's copy, add the
\* quantity to the existing line or push a new line, then this.save().  The
\* save of a pushed line is a $push on the stored array, whatever it holds by
\* now; the save of a changed quantity sets that element's quantity and is
\* refused (VersionError) when lines were pushed since the copy was read.
AddItemSave(r) ==
  /\ req[r].kind = "add" /\ req[r].pc = "i_save"
  /\ LET u == req[r].user
         p == req[r].productId
         q == req[r].quantity
         k == existingItem(req[r].csnap, p)
     IN IF k = 0
        THEN /\ carts' = [carts EXCEPT ![u] = Append(@, [productId |-> p, quantity |-> q])]
             /\ req' = [req EXCEPT ![r] = Done(r, "added")]
        ELSE IF Len(carts[u]) /= Len(req[r].csnap)
        THEN /\ req' = [req EXCEPT ![r] = Done(r, "error500")]
             /\ UNCHANGED carts
        ELSE /\ carts' = [carts EXCEPT ![u][k].quantity = req[r].csnap[k].quantity + q]
             /\ req' = [req EXCEPT ![r] = Done(r, "added")]
  /\ UNCHANGED <<txnSupported, stock0, audit, now, products, orders, payments,
                 emailJobs, sweep>>

AddItem(r) ==
  \/ \E u \in Users, p \in Products, q \in 1..(MaxQty + 1) : StartAddItem(r, u, p, q)
  \/ AddItemFind(r)
  \/ AddItemSave(r)

\* ---------------------------------------------------------------- environment
\* the clock: Date.now() / new Date() (Order.js:65, Order.js:87, products.js:895)
Tick ==
  /\ now < MaxTicks * ReservationWindow
  /\ now' = now + ReservationWindow
  /\ UNCHANGED <<txnSupported, stock0, audit, products, carts, orders, payments,
                 emailJobs, req, sweep>>

Next ==
  \/ \E r \in Requests : Checkout(r)
  \/ \E r \in Requests : Pay(r)
  \/ \E r \in Requests : Admin(r)
  \/ \E s \in Sweeps : Sweeper(s)
  \/ Tick

Spec == Init /\ [][Next]_vars

\* the same program when database operations of a checkout or of the sweeper
\* can fail; the admin routes are left out
NextFail ==
  \/ \E r \in Requests : Checkout(r)
  \/ \E r \in Requests : CheckoutFail(r)
  \/ \E s \in Sweeps : SweepFail(s)
  \/ \E r \in Requests : Pay(r)
  \/ \E s \in Sweeps : Sweeper(s)
  \/ Tick

SpecFail == Init /\ [][NextFail]_vars

\* the customers' requests when the commit of a transaction can fail after the
\* callback has returned; the sweeper and the admin routes are left out
NextCommit ==
  \/ \E r \in Requests : Checkout(r)
  \/ \E r \in Requests, rerun \in BOOLEAN : CheckoutCommitFail(r, rerun)
  \/ \E r \in Requests : Pay(r)
  \/ \E r \in Requests, rerun \in BOOLEAN : PayCommitFail(r, rerun)
  \/ Tick

SpecCommit == Init /\ [][NextCommit]_vars

\* the cart route alone, on carts that are empty at first
InitCart ==
  /\ txnSupported \in BOOLEAN
  /\ now = 0
  /\ \E s \in 1..MaxStock :
       products = [p \in Products |->
                     [stock |-> IF p = "p1" THEN s ELSE MaxStock, reservedStock |-> 0,
                      isActive |-> TRUE, price |-> 1]]
  /\ carts = [u \in Users |-> ClearedCart]
  /\ orders = <<>>
  /\ stock0 = [p \in Products |-> products[p].stock]
  /\ audit = <<>>
  /\ payments = <<>>
  /\ emailJobs = <<>>
  /\ req = [r \in Requests |-> IdleReq]
  /\ sweep = [s \in Sweeps |-> IdleSweep]

NextCart == \E r \in Requests : AddItem(r)

SpecCart == InitCart /\ [][NextCart]_vars

\* products.js:891, 926: setInterval fires the callback every minute whether or
\* not the previous call has returned, so one more tick than in the other
\* specifications can be in progress at a time
Ticks == 1..(MaxSweeps + 1)

InitOverlap ==
  /\ txnSupported \in BOOLEAN
  /\ now = 0
  /\ \E s \in 1..MaxStock :
       products = [p \in Products |->
                     [stock |-> IF p = "p1" THEN s ELSE MaxStock, reservedStock |-> 0,
                      isActive |-> TRUE, price |-> 1]]
  /\ carts \in InitCarts
  /\ orders = <<>>
  /\ stock0 = [p \in Products |-> products[p].stock]
  /\ audit = <<>>
  /\ payments = <<>>
  /\ emailJobs = <<>>
  /\ req = [r \in Requests |-> IdleReq]
  /\ sweep = [s \in Ticks |-> IdleSweep]

\* checkouts and the ticks of the sweeper
NextOverlap ==
  \/ \E r \in Requests : Checkout(r)
  \/ \E s \in Ticks : Sweeper(s)
  \/ Tick

SpecOverlap == InitOverlap /\ [][NextOverlap]_vars

\* products.js:891, 926: the callback of a tick has returned and setInterval
\* fires it again a minute later
SweepIdle(s) ==
  /\ sweep[s].pc = "done"
  /\ sweep' = [sweep EXCEPT ![s] = IdleSweep]
  /\ UNCHANGED <<txnSupported, stock0, audit, now, products, carts, orders, payments,
                 emailJobs, req>>

\* the customers' requests and a sweeper that ticks for ever
NextLive ==
  \/ \E r \in Requests : Checkout(r)
  \/ \E r \in Requests : Pay(r)
  \/ \E s \in Sweeps : Sweeper(s)
  \/ \E s \in Sweeps : SweepIdle(s)
  \/ Tick

\* setInterval keeps firing and the event loop runs every step of a tick's
\* callback; nothing is assumed about the requests
SpecLive ==
  /\ Init /\ [][NextLive]_vars
  /\ WF_vars(\E s \in Sweeps : Sweeper(s) \/ SweepIdle(s))

\* the program started on a database that already holds one order of u2 for
\* one unit of p1, placed at time 0 and since then left pending, paid (and
\* perhaps shipped and delivered by the admin) or cancelled by the sweeper
InitLate ==
  /\ txnSupported \in BOOLEAN
  /\ \E s \in 1..MaxStock, st \in Statuses :
       LET prods0 == [p \in Products |->
                        [stock |-> IF p = "p1" THEN s ELSE MaxStock, reservedStock |-> 0,
                         isActive |-> TRUE, price |-> 1]]
           o == NewOrder("u2", <<[productId |-> "p1", quantity |-> 1]>>, prods0, 0)
           reserved == ReserveAll(prods0, o.items)
           paid == st \in {"PAID", "SHIPPED", "DELIVERED"}
       IN /\ orders = <<[o EXCEPT !.status = st]>>
          /\ products = CASE st = "PENDING_PAYMENT" -> reserved
                          [] st = "CANCELLED" -> ReleaseAll(reserved, o.items)
                          [] OTHER -> CommitAll(reserved, o.items)
          /\ payments = IF paid THEN <<NewPayment(1, o, "SUCCESS")>> ELSE <<>>
          /\ emailJobs = IF paid THEN <<1>> ELSE <<>>
          /\ audit = <<[released |-> IF st = "CANCELLED" THEN Len(o.items) ELSE 0,
                        committed |-> IF paid THEN Len(o.items) ELSE 0]>>
          /\ now = IF st = "CANCELLED" THEN 2 * ReservationWindow ELSE 0
          /\ stock0 = [p \in Products |-> prods0[p].stock]
  /\ carts = [u \in Users |-> IF u = "u1"
                              THEN <<[productId |-> "p1", quantity |-> 1],
                                     [productId |-> "p2", quantity |-> 1]>>
                              ELSE ClearedCart]
  /\ req = [r \in Requests |-> IdleReq]
  /\ sweep = [s \in Sweeps |-> IdleSweep]

NextLate ==
  \/ \E r \in Requests : Pay(r)
  \/ \E r \in Requests, oid \in 1..(Len(orders) + 1), status \in Statuses :
       StatusFind(r, oid, status)
  \/ \E r \in Requests : StatusSave(r)
  \/ \E s \in Sweeps : Sweeper(s)
  \/ Tick

SpecLate == InitLate /\ [][NextLate]_vars

\* ================================================================ claims
Pending(o) == orders[o].status = "PENDING_PAYMENT"

\* units of product p on order o
Qty(o, p) ==
  LET items == orders[o].items
      RECURSIVE Sum(_)
      Sum(k) == IF k > Len(items) THEN 0
                ELSE (IF items[k].productId = p THEN items[k].quantity ELSE 0) + Sum(k + 1)
  IN Sum(1)

NoProductUpdate == \A r \in Requests : req[r].kind /= "product"

\* C1: in every reachable state every product has 0 <= reservedStock <= stock,
\* so availableStock is never negative.
C1_StockInvariant ==
  \A p \in Products :
    /\ 0 <= products[p].reservedStock
    /\ products[p].reservedStock <= products[p].stock
    /\ availableStock(products[p]) >= 0

\* C2: of two checkouts by different users for the single unit of a product,
\* exactly one creates an order: with no admin product update, two orders of
\* different users never both hold a pending reservation on a product whose
\* stock is 1.
C2_OneCheckoutWins ==
  NoProductUpdate =>
    \A r1, r2 \in Requests :
      ( /\ r1 /= r2
        /\ req[r1].kind = "checkout" /\ req[r1].result = "created"
        /\ req[r2].kind = "checkout" /\ req[r2].result = "created"
        /\ req[r1].user /= req[r2].user )
      => ~ \E p \in Products :
             /\ products[p].stock = 1 /\ stock0[p] = 1
             /\ Pending(req[r1].oid) /\ Qty(req[r1].oid, p) = 1
             /\ Pending(req[r2].oid) /\ Qty(req[r2].oid, p) = 1

\* C3: the quantities of an order are released at most once, whoever cancels
\* it (the sweeper or the lazy expiry of pay).
C3_ReleasedOnce ==
  \A o \in 1..Len(orders) : audit[o].released <= Len(orders[o].items)

\* C4: a pay request that fails with the order-expired error leaves the order
\* CANCELLED with the quantity of every line released.
C4_ExpiredPayCancels ==
  \A r \in Requests :
    (req[r].kind = "pay" /\ req[r].result = "expired")
      => /\ orders[req[r].oid].status = "CANCELLED"
         /\ audit[req[r].oid].released >= Len(orders[req[r].oid].items)

\* only the requests in S have arrived, and no sweep tick found an order
OnlyRan(S) ==
  /\ \A r \in Requests \ S : req[r].pc = "idle"
  /\ \A s \in Sweeps : sweep[s].pc = "idle"

Created(r) == req[r].kind = "checkout" /\ req[r].result = "created"

PayOf(rp, rc) == req[rp].kind = "pay" /\ req[rp].oid = req[rc].oid

\* a checkout and a successful pay of its order, and nothing else
CheckoutThenPaid(rc, rp) ==
  /\ rc /= rp /\ Created(rc) /\ PayOf(rp, rc) /\ req[rp].result = "paid"
  /\ OnlyRan({rc, rp})

\* C5: after a successful checkout followed by a successful pay of that order,
\* each ordered product's stock is lower by the ordered quantity, its
\* reservedStock is back at the pre-checkout value and the order is PAID.
C5_CheckoutThenPay ==
  \A rc, rp \in Requests :
    CheckoutThenPaid(rc, rp) =>
      LET o == req[rc].oid IN
        /\ orders[o].status = "PAID"
        /\ \A p \in Products :
             /\ products[p].stock = stock0[p] - Qty(o, p)
             /\ products[p].reservedStock = 0

C5_Witness ==
  \E rc, rp \in Requests :
    /\ CheckoutThenPaid(rc, rp)
    /\ \E p \in Products : Qty(req[rc].oid, p) > 0 /\ products[p].stock < stock0[p]

\* one successful checkout, and nothing else
CheckoutAlone(rc) == Created(rc) /\ OnlyRan({rc})

\* C6: a successful checkout creates exactly one order, PENDING_PAYMENT, with
\* expiresAt = creation time + 15 minutes, leaves every stock unchanged and
\* raises each ordered product's reservedStock by the ordered quantity.
C6_CheckoutReserves ==
  \A rc \in Requests :
    CheckoutAlone(rc) =>
      /\ Len(orders) = 1 /\ req[rc].oid = 1
      /\ orders[1].userId = req[rc].user
      /\ orders[1].status = "PENDING_PAYMENT"
      /\ orders[1].expiresAt = orders[1].createdAt + 15
      /\ \A p \in Products :
           /\ products[p].stock = stock0[p]
           /\ products[p].reservedStock = Qty(1, p)

C6_Witness ==
  \E rc \in Requests :
    /\ CheckoutAlone(rc)
    /\ Len(orders[1].items) = 2
    /\ \A p \in Products : products[p].reservedStock = 1

\* a checkout, a declined pay of its order and at most one later pay of it
DeclinedThenRetry(rc, rp, rq) ==
  /\ rc /= rp /\ rp < rq /\ rc /= rq
  /\ Created(rc) /\ PayOf(rp, rc) /\ req[rp].result = "declined"
  /\ req[rp].user = req[rc].user
  /\ OnlyRan({rc, rp, rq})
  /\ req[rq].pc = "idle" \/ (PayOf(rq, rc) /\ req[rq].user = req[rc].user)

\* C7: a declined pay leaves stock, reservedStock and the order's status as
\* they were, and a later pay of the order is still accepted for processing
\* unless the order has expired.
C7_DeclinedKeepsReservation ==
  \A rc, rp, rq \in Requests :
    DeclinedThenRetry(rc, rp, rq) =>
      LET o == req[rc].oid IN
        /\ req[rq].pc = "idle" =>
             /\ orders[o].status = "PENDING_PAYMENT"
             /\ \A p \in Products :
                  /\ products[p].stock = stock0[p]
                  /\ products[p].reservedStock = Qty(o, p)
        /\ req[rq].pc = "done" =>
             /\ req[rq].result \in {"paid", "declined", "expired", "error500"}
             /\ req[rq].result = "expired" => now > orders[o].expiresAt

C7_Witness ==
  \E rc, rp, rq \in Requests :
    /\ DeclinedThenRetry(rc, rp, rq)
    /\ req[rq].pc = "done" /\ req[rq].result = "paid"

\* C8: every payment attempt is retained: after a declined pay a FAILED Payment
\* with the fixed failure reason exists for the order.
C8_FailedAttemptRetained ==
  \A r \in Requests :
    (req[r].kind = "pay" /\ req[r].result = "declined") =>
      \E k \in 1..Len(payments) :
        /\ payments[k].orderId = req[r].oid
        /\ payments[k].status = "FAILED"
        /\ payments[k].failureReason = "Payment gateway declined transaction"

\* C9: a failure to enqueue the confirmation never fails or rolls back the
\* payment: a pay whose simulated payment succeeded ends with the success
\* response and the SUCCESS payment recorded, whether or not the enqueue worked.
C9_EnqueueFailureHarmless ==
  \A r \in Requests :
    (req[r].kind = "pay" /\ req[r].result \in {"paid", "error500"}) =>
      /\ req[r].result = "paid"
      /\ \E k \in 1..Len(payments) :
           payments[k].orderId = req[r].oid /\ payments[k].status = "SUCCESS"

\* C10: for every order at most one SUCCESS Payment exists.
C10_OneSuccessPerOrder ==
  \A o \in 1..Len(orders) :
    Cardinality({k \in 1..Len(payments) :
                   payments[k].orderId = o /\ payments[k].status = "SUCCESS"}) <= 1

\* a checkout, then one sweep tick that found its order expired and finished;
\* every other request is a pay of that order that was refused
SweptAfterCheckout(rc) ==
  /\ Created(rc)
  /\ Cardinality({s \in Sweeps : sweep[s].pc = "done"}) = 1
  /\ \A s \in Sweeps : sweep[s].pc \in {"idle", "done"}
  /\ \A r \in Requests \ {rc} :
       \/ req[r].pc = "idle"
       \/ /\ req[r].pc = "done" /\ PayOf(r, rc)
          /\ req[r].result \in {"cancelled", "forbidden"}

\* C11: after a checkout, once expiresAt has passed without payment, one sweep
\* tick leaves the order CANCELLED and every reservedStock back at its
\* pre-checkout value; every later pay of the order is refused in the step it
\* arrives and changes no order, payment or product.
C11_SweepCancelsExpired ==
  [][ \A rc \in Requests :
        SweptAfterCheckout(rc) =>
          LET o == req[rc].oid IN
            /\ orders[o].status = "CANCELLED"
            /\ now > orders[o].expiresAt
            /\ \A p \in Products :
                 /\ products[p].reservedStock = 0
                 /\ products[p].stock = stock0[p]
            /\ \A rp \in Requests :
                 (req[rp].pc = "idle" /\ req'[rp].kind = "pay" /\ req'[rp].oid = o)
                   => /\ req'[rp].pc = "done"
                      /\ req'[rp].result \in {"cancelled", "forbidden"}
                      /\ UNCHANGED <<orders, payments, products>> ]_vars

C11_Witness ==
  \E rc, rp \in Requests :
    /\ SweptAfterCheckout(rc)
    /\ Len(orders[req[rc].oid].items) = 2
    /\ req[rp].pc = "done" /\ PayOf(rp, rc)
    /\ req[rp].user = req[rc].user /\ req[rp].result = "cancelled"

FailedCheckout(r) == req[r].kind = "checkout" /\ req[r].result = "error500"

\* C12: a checkout that fails after validation (at the order save, at a
\* reservation or at the cart update) leaves no effect: no order exists for it
\* and, when nothing else ran, no product's reservedStock is above its
\* pre-checkout value; with transactions and without.
C12_FailedCheckoutLeavesNothing ==
  \A r \in Requests :
    FailedCheckout(r) =>
      /\ req[r].oid \notin 1..Len(orders)
      /\ OnlyRan({r}) =>
           /\ orders = <<>>
           /\ \A p \in Products : products[p].reservedStock = 0

Rejections == {"empty_cart", "inactive", "insufficient"}

\* some line of the cart names an inactive product or more than is available
BadLine(cart) ==
  \E k \in 1..Len(cart) :
    \/ ~products[cart[k].productId].isActive
    \/ availableStock(products[cart[k].productId]) < cart[k].quantity

\* C13: a checkout whose cart is empty or has a line with an inactive product
\* or with availableStock < quantity is rejected, and the rejection creates no
\* order, changes no product's stock or reservedStock and leaves the cart as
\* it was.
C13_RejectedCheckoutChangesNothing ==
  [][ \A r \in Requests :
        (req[r].pc \in {"idle", "c_read"} /\ req'[r].kind = "checkout"
           /\ req'[r] /= req[r])
          => LET cart == carts[req'[r].user] IN
               /\ (cart = <<>> \/ BadLine(cart)) <=> req'[r].result \in Rejections
               /\ cart = <<>> => req'[r].result = "empty_cart"
               /\ req'[r].result \in Rejections
                    => /\ req'[r].pc = "done" /\ req'[r].oid = 0
                       /\ UNCHANGED <<orders, products, carts, payments>> ]_vars

\* the second line of a two-line cart is refused while the first would pass
C13_Witness ==
  \E r \in Requests :
    /\ req[r].kind = "checkout" /\ req[r].result = "insufficient"
    /\ LET cart == carts[req[r].user] IN
         /\ Len(cart) = 2
         /\ availableStock(products[cart[1].productId]) >= cart[1].quantity
         /\ availableStock(products[cart[2].productId]) < cart[2].quantity
         /\ products[cart[1].productId].isActive
    /\ \A p \in Products : products[p].reservedStock = 0

LegalEdges == { <<"PENDING_PAYMENT", "PAID">>, <<"PENDING_PAYMENT", "CANCELLED">>,
                <<"PAID", "SHIPPED">>, <<"PAID", "CANCELLED">>,
                <<"SHIPPED", "DELIVERED">> }

\* C14: an admin status update of an existing order is accepted only when
\* (current status, requested status) is one of the five legal edges; any other
\* request, a request for the current status included, is rejected with the
\* message naming both statuses and leaves the order unchanged.  An accepted
\* request stores the requested status.
C14_StatusUpdateGuard ==
  [][ \A r \in Requests :
        /\ (req[r].pc = "idle" /\ req'[r].kind = "status"
              /\ req'[r].oid \in 1..Len(orders))
             => LET from == orders[req'[r].oid].status IN
                  /\ UNCHANGED orders
                  /\ \E to \in Statuses :
                       \/ /\ <<from, to>> \in LegalEdges
                          /\ req'[r].pc = "a_save" /\ req'[r].target = to
                       \/ /\ <<from, to>> \notin LegalEdges
                          /\ req'[r].pc = "done"
                          /\ req'[r].result = "invalid_transition"
                          /\ req'[r].message =
                               "Invalid status transition from " \o from \o " to " \o to
        /\ (req[r].kind = "status" /\ req[r].pc = "a_save" /\ req'[r].pc = "done")
             => /\ <<req[r].order.status, req[r].target>> \in LegalEdges
                /\ req'[r].result = "updated"
                /\ orders'[req[r].oid].status = req[r].target ]_vars

\* a request for the status the order already has was rejected
C14_Witness ==
  \E r \in Requests :
    /\ req[r].kind = "status" /\ req[r].result = "invalid_transition"
    /\ req[r].message = "Invalid status transition from CANCELLED to CANCELLED"
    /\ orders[req[r].oid].status = "CANCELLED"

\* C15: DELIVERED and CANCELLED are terminal: no step of a pay, a sweep or an
\* admin status update changes a stored status that is DELIVERED or CANCELLED.
C15_TerminalStatuses ==
  [][ \A o \in 1..Len(orders) :
        orders[o].status \in {"DELIVERED", "CANCELLED"}
          => orders'[o].status = orders[o].status ]_vars

\* C16: every step that takes an order from PENDING_PAYMENT to CANCELLED
\* releases the quantities of its lines: in the same step (one release per
\* line), or as the next steps of the operation that cancelled it.
C16_CancelReleases ==
  [][ \A o \in 1..Len(orders) :
        (orders[o].status = "PENDING_PAYMENT" /\ orders'[o].status = "CANCELLED")
          => \/ /\ audit'[o].released = audit[o].released + Len(orders[o].items)
                /\ products' = ReleaseAll(products, orders[o].items)
             \/ \E r \in Requests :
                  /\ req[r].pc = "p_exp_save" /\ req'[r].pc = "p_exp_release"
                  /\ req[r].oid = o
             \/ \E s \in Sweeps :
                  /\ sweep[s].pc = "s_save" /\ sweep'[s].pc = "s_release"
                  /\ sweep[s].batch[sweep[s].k].oid = o ]_vars

\* request r runs the body of pay in this step: on arrival, or again after a
\* write conflict
PayReads(r) ==
  /\ req[r].pc \in {"idle", "p_find"}
  /\ req'[r].kind = "pay" /\ req'[r] /= req[r]

\* C17: a pay for an order id that does not exist fails with not-found and a
\* pay by a user who is not the owner fails with forbidden, the order being
\* expired or not; in both cases no order, payment or product changes.
C17_PayNotFoundForbidden ==
  [][ \A r \in Requests :
        PayReads(r) =>
          LET oid == req'[r].oid
              exists == oid \in 1..Len(orders)
          IN /\ ~exists => req'[r].result = "not_found"
             /\ (exists /\ orders[oid].userId /= req'[r].user)
                  => req'[r].result = "forbidden"
             /\ (~exists \/ orders[oid].userId /= req'[r].user)
                  => /\ req'[r].pc = "done"
                     /\ UNCHANGED <<orders, payments, products>> ]_vars

\* a stranger's pay of an expired pending order was refused
C17_Witness ==
  \E r \in Requests :
    /\ req[r].kind = "pay" /\ req[r].result = "forbidden"
    /\ orders[req[r].oid].status = "PENDING_PAYMENT"
    /\ now > orders[req[r].oid].expiresAt
    /\ \E q \in Requests : req[q].kind = "pay" /\ req[q].result = "not_found"

\* C18: a pay by the owner of an order that is PAID, SHIPPED, DELIVERED or
\* CANCELLED fails with the message of that status and changes nothing: no
\* payment is created and no order or product changes.
C18_PayOnSettledOrder ==
  [][ \A r \in Requests :
        PayReads(r) =>
          LET oid == req'[r].oid IN
            (oid \in 1..Len(orders) /\ orders[oid].userId = req'[r].user
               /\ orders[oid].status /= "PENDING_PAYMENT")
              => /\ req'[r].pc = "done"
                 /\ req'[r].result =
                      CASE orders[oid].status = "PAID" -> "already_paid"
                        [] orders[oid].status = "SHIPPED" -> "already_shipped"
                        [] orders[oid].status = "DELIVERED" -> "already_delivered"
                        [] orders[oid].status = "CANCELLED" -> "cancelled"
                 /\ UNCHANGED <<orders, payments, products>> ]_vars

\* the owner's pay was refused on a shipped and on a delivered order
C18_Witness ==
  \E r, q \in Requests :
    /\ req[r].kind = "pay" /\ req[r].result = "already_shipped"
    /\ req[q].kind = "pay" /\ req[q].result = "already_delivered"
    /\ req[r].oid = req[q].oid
    /\ orders[req[q].oid].status = "DELIVERED"

\* C19: a pay by the owner of an existing order ends with success (paid), with
\* a client error of a pending order (expired, declined) or with the client
\* error of an order that is not pending; it never ends with a server error.
C19_PayOutcomes ==
  [][ \A r \in Requests :
        ( /\ req'[r].kind = "pay" /\ req'[r].pc = "done" /\ req[r].pc /= "done"
          /\ req'[r].oid \in 1..Len(orders)
          /\ orders[req'[r].oid].userId = req'[r].user )
        => req'[r].result \in {"paid", "expired", "declined", "already_paid",
                               "cancelled", "already_shipped", "already_delivered"} ]_vars

\* C20: once an order is stored its items, totalAmount and expiresAt never
\* change, whatever runs afterwards (pay, sweep, admin status update, product
\* price or stock update); no order is removed.
C20_OrderFrame ==
  [][ /\ Len(orders') >= Len(orders)
      /\ \A o \in 1..Len(orders) :
           /\ orders'[o].items = orders[o].items
           /\ orders'[o].totalAmount = orders[o].totalAmount
           /\ orders'[o].expiresAt = orders[o].expiresAt ]_vars

\* an order went through an admin status update after its window had passed,
\* and the price of a product on it has changed since the checkout
C20_Witness ==
  \E r \in Requests :
    /\ req[r].kind = "status" /\ req[r].result = "updated"
    /\ LET o == orders[req[r].oid] IN
         /\ o.status /= "PENDING_PAYMENT"
         /\ now > o.expiresAt
         /\ o.expiresAt = o.createdAt + ReservationWindow
         /\ o.totalAmount = SumLines(o.items)
         /\ \E k \in 1..Len(o.items) :
              products[o.items[k].productId].price /= o.items[k].priceAtPurchase

\* some order is past its expiresAt and every such order is CANCELLED
AllExpiredCancelled ==
  /\ \E o \in 1..Len(orders) : orders[o].expiresAt < now
  /\ \A o \in 1..Len(orders) :
       orders[o].expiresAt < now => orders[o].status = "CANCELLED"

\* C21: a sweep tick that fires when every expired order is already CANCELLED
\* selects no order and is a no-op: it changes no order status and no
\* product's stock or reservedStock.
C21_SweepReplayIsNoOp ==
  [][ (AllExpiredCancelled /\ \A s \in Sweeps : sweep[s].pc = "idle")
        => /\ ExpiredFrom(1, now) = <<>>
           /\ sweep' = sweep
           /\ (req' = req /\ now' = now) => UNCHANGED <<orders, products>> ]_vars

\* an order was cancelled and released by the expiry branch of pay, and the
\* sweeper is about to tick
C21_Witness ==
  /\ AllExpiredCancelled
  /\ \A s \in Sweeps : sweep[s].pc = "idle"
  /\ \E o \in 1..Len(orders) :
       /\ orders[o].status = "CANCELLED"
       /\ audit[o].released = Len(orders[o].items)
       /\ \A p \in Products : products[p].reservedStock = 0

\* order o is stored, pending and past its expiresAt, and no pay request that
\* read it earlier is still being handled
ExpiredUnpaid(o) ==
  /\ o \in 1..Len(orders)
  /\ orders[o].status = "PENDING_PAYMENT" /\ orders[o].expiresAt < now
  /\ \A r \in Requests : (req[r].kind = "pay" /\ req[r].oid = o) => req[r].pc = "done"

C23_SweepFailureIsolated ==
  [][ \A s \in Sweeps :
        (sweep'[s].errors > sweep[s].errors /\ \A r \in Requests : req[r].kind /= "pay")
          => LET o == sweep[s].batch[sweep[s].k].oid IN
               /\ SweepSelects(orders'[o], now')
               /\ audit'[o].released = 0
               /\ IF sweep[s].k < Len(sweep[s].batch)
                  THEN sweep'[s].k = sweep[s].k + 1 /\ sweep'[s].pc \in {"s_begin", "s_save"}
                  ELSE sweep'[s].pc = "done" ]_vars

\* C24: no admin product-management request changes the stock or the
\* reservedStock of an existing product.
C24_AdminLeavesLedger ==
  [][ \A r \in Requests :
        (req[r].pc = "idle" /\ req'[r].kind = "product")
          => \A p \in Products :
               /\ products'[p].stock = products[p].stock
               /\ products'[p].reservedStock = products[p].reservedStock ]_vars

Max0(n) == IF n < 0 THEN 0 ELSE n

\* the release of one line leaves reservedStock = max(0, reservedStock - quantity)
FlooredRelease(item) ==
  products'[item.productId].reservedStock =
    Max0(products[item.productId].reservedStock - item.quantity)

\* C25: every release of a quantity q against a product with reservedStock r
\* leaves reservedStock = max(0, r - q), in the sweeper and in the expiry
\* branch of pay, line by line or in one transaction.
C25_ReleaseFloored ==
  [][ /\ \A s \in Sweeps :
           LET e == sweep[s].batch[sweep[s].k] IN
             /\ (sweep[s].pc = "s_release" /\ sweep'[s] /= sweep[s])
                  => FlooredRelease(e.order.items[sweep[s].i])
             /\ (sweep[s].pc = "s_commit" /\ sweep'[s] /= sweep[s]
                   /\ products' /= products)
                  => \A k \in 1..Len(e.order.items) : FlooredRelease(e.order.items[k])
      /\ \A r \in Requests :
           (req[r].pc = "p_exp_release" /\ req'[r] /= req[r])
             => FlooredRelease(req[r].order.items[req[r].i]) ]_vars

\* the only admin request so far deactivated a product that order o holds
DeactivatedAfter(rc, ra) ==
  /\ Created(rc) /\ req[ra].kind = "product"
  /\ \E p \in Products : ~products[p].isActive /\ Qty(req[rc].oid, p) > 0

\* C26: a cart with a line for a deactivated product does not pass the
\* validation of checkout, while an order that reserved the product before it
\* was deactivated is paid and swept as usual: a successful pay leaves it PAID
\* with the stock committed and the reservation gone, and a sweep after
\* expiry leaves it CANCELLED with the reservation released.
C26_DeactivatedProduct ==
  /\ \A u \in Users :
       (\E k \in 1..Len(carts[u]) : ~products[carts[u][k].productId].isActive)
         => ValidateCart(carts[u], products) \in {"inactive", "insufficient"}
  /\ \A rc, ra, rp \in Requests :
       (DeactivatedAfter(rc, ra) /\ PayOf(rp, rc) /\ req[rp].result = "paid"
          /\ OnlyRan({rc, ra, rp}))
         => LET o == req[rc].oid IN
              /\ orders[o].status = "PAID"
              /\ \A p \in Products :
                   /\ products[p].stock = stock0[p] - Qty(o, p)
                   /\ products[p].reservedStock = 0
  /\ \A rc, ra \in Requests :
       ( /\ DeactivatedAfter(rc, ra)
         /\ \A r \in Requests \ {rc, ra} : req[r].pc = "idle"
         /\ Cardinality({s \in Sweeps : sweep[s].pc = "done"}) = 1
         /\ \A s \in Sweeps : sweep[s].pc \in {"idle", "done"} )
         => LET o == req[rc].oid IN
              /\ orders[o].status = "CANCELLED"
              /\ \A p \in Products :
                   /\ products[p].stock = stock0[p]
                   /\ products[p].reservedStock = 0

\* an order was paid after one of its products had been deactivated, and the
\* other user's cart with that product no longer passes the validation
C26_Witness ==
  \E rc, ra, rp \in Requests :
    /\ DeactivatedAfter(rc, ra) /\ PayOf(rp, rc) /\ req[rp].result = "paid"
    /\ OnlyRan({rc, ra, rp})
    /\ rc < ra /\ ra < rp
    /\ \E u \in Users :
         /\ carts[u] /= <<>>
         /\ ValidateCart(carts[u], products) = "inactive"

\* sum over the lines of priceAtPurchase * quantity
LineTotal(items) ==
  LET RECURSIVE Sum(_)
      Sum(k) == IF k > Len(items) THEN 0
                ELSE items[k].priceAtPurchase * items[k].quantity + Sum(k + 1)
  IN Sum(1)

\* C27: the order a checkout builds takes each line's priceAtPurchase from the
\* product's price at the read of the cart, and its totalAmount is the sum of
\* priceAtPurchase * quantity; the stored order is that order; afterwards no
\* price change alters a stored priceAtPurchase or totalAmount, and every
\* payment attempt carries the order's totalAmount and is never altered.
C27_PricesFrozen ==
  [][ /\ \A r \in Requests :
           (req[r].pc \in {"idle", "c_read"} /\ req'[r].pc \in {"c_begin", "c_save"})
             => LET o == req'[r].order IN
                  /\ \A k \in 1..Len(o.items) :
                       o.items[k].priceAtPurchase = products[o.items[k].productId].price
                  /\ o.totalAmount = LineTotal(o.items)
      /\ \A r \in Requests :
           (req[r].pc \in {"c_commit", "c_save"} /\ Len(orders') = Len(orders) + 1
              /\ req'[r] /= req[r])
             => orders'[Len(orders')] = req[r].order
      /\ \A o \in 1..Len(orders) :
           /\ orders'[o].items = orders[o].items
           /\ orders'[o].totalAmount = LineTotal(orders[o].items)
      /\ \A k \in 1..Len(payments) : payments'[k] = payments[k]
      /\ \A k \in 1..Len(payments') :
           payments'[k].amount = orders'[payments'[k].orderId].totalAmount ]_vars

\* an order was paid after the price of one of its products had changed
C27_Witness ==
  \E k \in 1..Len(payments) :
    LET o == orders[payments[k].orderId] IN
      /\ payments[k].status = "SUCCESS"
      /\ payments[k].amount = LineTotal(o.items)
      /\ \E i \in 1..Len(o.items) :
           products[o.items[i].productId].price /= o.items[i].priceAtPurchase
      /\ \E r \in Requests :
           /\ r + 1 \in Requests /\ req[r].kind = "product"
           /\ req[r + 1].kind = "pay" /\ req[r + 1].result = "paid"

\* C28: the callback of a checkout or pay request is executed at most once.
C28_OneAttempt ==
  \A r \in Requests : req[r].kind \in {"checkout", "pay"} => req[r].runs <= 1

\* C29: the step in which a checkout responds with success leaves its user's
\* cart empty, and a cart changes in no other step: a checkout that is
\* rejected or fails leaves the cart with the items it held.
C29_CartAfterCheckout ==
  [][ /\ \A r \in Requests :
           (req'[r].kind = "checkout" /\ req'[r].result = "created"
              /\ req[r].pc /= "done")
             => carts'[req'[r].user] = <<>>
      /\ \A u \in Users :
           carts'[u] /= carts[u]
             => \E r \in Requests :
                  /\ req[r].pc /= "done" /\ req'[r].kind = "checkout"
                  /\ req'[r].user = u /\ req'[r].result = "created" ]_vars

\* one user's checkout succeeded and emptied the cart, the other's failed
\* after its order was saved and left the cart full
C29_Witness ==
  \E rc, rf \in Requests :
    /\ Created(rc) /\ carts[req[rc].user] = <<>>
    /\ FailedCheckout(rf) /\ req[rf].oid \in 1..Len(orders)
    /\ Len(carts[req[rf].user]) > 0

\* isExpired and the sweeper's query agree with the definition on order ord at
\* time t
ExpiryAgrees(ord, t) ==
  /\ isExpired(ord, t) <=> (ord.status = "PENDING_PAYMENT" /\ t > ord.expiresAt)
  /\ isExpired(ord, t) <=> SweepSelects(ord, t)
  /\ t = ord.expiresAt => ~isExpired(ord, t) /\ ~SweepSelects(ord, t)

\* C30: isExpired() is true exactly when the status is PENDING_PAYMENT and the
\* time is strictly after expiresAt, and it agrees with the sweeper's query:
\* a pay by the owner takes the expiry branch exactly when the sweeper would
\* select the order, and neither does at now = expiresAt.
C30_ExpiryPredicate ==
  [][ /\ \A o \in 1..Len(orders) : ExpiryAgrees(orders[o], now)
      /\ \A o \in 1..Len(orders') : ExpiryAgrees(orders'[o], now')
      /\ \A r \in Requests :
           (PayReads(r) /\ req'[r].oid \in 1..Len(orders)
              /\ orders[req'[r].oid].userId = req'[r].user)
             => ( (req'[r].pc \in {"p_exp_commit", "p_exp_save"})
                    <=> SweepSelects(orders[req'[r].oid], now) ) ]_vars

\* at the instant of its expiresAt an order is pending, earlier pays of it
\* were declined, and both a pay and a sweep tick can start
C30_Witness ==
  \E o \in 1..Len(orders) :
    /\ orders[o].status = "PENDING_PAYMENT" /\ now = orders[o].expiresAt
    /\ \E r \in Requests : req[r].kind = "pay" /\ req[r].oid = o
                           /\ req[r].result = "declined"
    /\ \E r \in Requests : CanStart(r)
    /\ \A s \in Sweeps : sweep[s].pc = "idle"

\* C31: under every interleaving of pay, sweep ticks and admin status updates
\* each change of an order's stored status follows one of the five legal
\* edges; a writer that read the status before another writer changed it never
\* overwrites it along an illegal edge.
C31_StatusChangesLegal ==
  [][ \A o \in 1..Len(orders) :
        orders'[o].status /= orders[o].status
          => <<orders[o].status, orders'[o].status>> \in LegalEdges ]_vars

\* units of product p held by the orders that are PENDING_PAYMENT
PendingQty(p) ==
  LET RECURSIVE Sum(_)
      Sum(o) == IF o > Len(orders) THEN 0
                ELSE (IF Pending(o) THEN Qty(o, p) ELSE 0) + Sum(o + 1)
  IN Sum(1)

\* no request and no sweep tick is between two of its steps
Quiescent ==
  /\ \A r \in Requests : req[r].pc \in {"idle", "done"}
  /\ \A s \in Sweeps : sweep[s].pc \in {"idle", "done"}

\* C32: in every reachable state in which no operation is in progress, each
\* product's reservedStock equals the sum of the quantities of that product
\* over the lines of all orders currently in PENDING_PAYMENT: no reservation
\* outlives its pending order and no pending order lacks its reservation.
C32_ReservedMatchesPending ==
  Quiescent => \A p \in Products : products[p].reservedStock = PendingQty(p)

\* order o has a SUCCESS payment record
PaidSuccessfully(o) ==
  \E k \in 1..Len(payments) : payments[k].orderId = o /\ payments[k].status = "SUCCESS"

\* units of product p on the orders that were paid successfully, each order
\* counted once
PaidQty(p) ==
  LET RECURSIVE Sum(_)
      Sum(o) == IF o > Len(orders) THEN 0
                ELSE (IF PaidSuccessfully(o) THEN Qty(o, p) ELSE 0) + Sum(o + 1)
  IN Sum(1)

\* C33: each order's reservation is committed at most once: with no admin
\* product update, no order has more commit updates applied than it has lines,
\* and once no operation is in progress each product's stock is lower than its
\* initial value by exactly the quantities of the orders paid successfully,
\* each order counted once.
C33_CommittedOnce ==
  NoProductUpdate =>
    /\ \A o \in 1..Len(orders) : audit[o].committed <= Len(orders[o].items)
    /\ Quiescent => \A p \in Products : stock0[p] - products[p].stock = PaidQty(p)

\* the SUCCESS payment records of order o
SuccessPayments(o) ==
  {k \in 1..Len(payments) : payments[k].orderId = o /\ payments[k].status = "SUCCESS"}

\* C34: once no operation is in progress, an order whose status is PAID,
\* SHIPPED or DELIVERED has exactly one SUCCESS payment record and has had the
\* stock of every line committed.
C34_PaidHasPayment ==
  Quiescent =>
    \A o \in 1..Len(orders) :
      orders[o].status \in {"PAID", "SHIPPED", "DELIVERED"}
        => /\ Cardinality(SuccessPayments(o)) = 1
           /\ audit[o].committed = Len(orders[o].items)

\* the response the client of a request has received so far
Reported(q) == IF q.sent /= "none" THEN q.sent ELSE q.result

\* request r sends the success response res in this step
Reports(r, res) == Reported(req[r]) /= res /\ Reported(req'[r]) = res

\* C35: in the step in which a checkout or pay request reports success to the
\* client, the effects it reports are stored: the order exists for the user
\* (checkout), respectively the order is PAID with a SUCCESS payment record and
\* the stock of every line committed (pay); the request has ended and its
\* transaction is neither rolled back nor executed again.
C35_SuccessIsCommitted ==
  [][ \A r \in Requests :
        /\ (req'[r].kind = "checkout" /\ Reports(r, "created"))
             => /\ req'[r].pc = "done" /\ req'[r].sent = "none"
                /\ req'[r].oid \in 1..Len(orders')
                /\ orders'[req'[r].oid].userId = req'[r].user
        /\ (req'[r].kind = "pay" /\ Reports(r, "paid"))
             => /\ req'[r].pc = "done" /\ req'[r].sent = "none"
                /\ orders'[req'[r].oid].status = "PAID"
                /\ \E k \in 1..Len(payments') :
                     /\ payments'[k].orderId = req'[r].oid
                     /\ payments'[k].status = "SUCCESS"
                /\ audit'[req'[r].oid].committed >= Len(orders'[req'[r].oid].items) ]_vars

\* C36: in the step in which an order-confirmation notification is enqueued,
\* the order's successful payment is stored (order PAID with a SUCCESS payment
\* record), and no confirmation was enqueued for that order before.
C36_ConfirmationAfterCommit ==
  [][ Len(emailJobs') > Len(emailJobs)
        => LET o == emailJobs'[Len(emailJobs')] IN
             /\ orders'[o].status = "PAID"
             /\ \E k \in 1..Len(payments') :
                  payments'[k].orderId = o /\ payments'[k].status = "SUCCESS"
             /\ \A j \in 1..Len(emailJobs) : emailJobs[j] /= o ]_vars

\* C37: when two sweep ticks overlap and both have selected the same expired
\* order, the order's stock is released at most once: with nothing but the
\* ticks releasing stock, no step of a tick on an order of its batch leaves
\* more releases applied for the order than the order has lines.
C37_OverlappingTicksReleaseOnce ==
  [][ \A s \in Ticks :
        (sweep[s].pc \in {"s_commit", "s_release"} /\ sweep'[s] /= sweep[s])
          => LET o == sweep[s].batch[sweep[s].k].oid
             IN audit'[o].released <= Len(orders[o].items) ]_vars

\* C38: a pay request never moves an order to PAID after its expiresAt has
\* passed: in every step in which a pay request writes PAID over
\* PENDING_PAYMENT, the order is not expired at the time of the write.
C38_NoLatePaid ==
  [][ \A r \in Requests :
        ( /\ req[r].kind = "pay" /\ req[r].pc \in {"p_commit", "p_order_save"}
          /\ req'[r] /= req[r]
          /\ orders[req[r].oid].status = "PENDING_PAYMENT"
          /\ orders'[req[r].oid].status = "PAID" )
        => ~isExpired(orders[req[r].oid], now) ]_vars

\* units of product p over the lines of a cart
CartQty(cart, p) ==
  LET RECURSIVE Sum(_)
      Sum(k) == IF k > Len(cart) THEN 0
                ELSE (IF cart[k].productId = p THEN cart[k].quantity ELSE 0) + Sum(k + 1)
  IN Sum(1)

\* C39: a cart never holds two lines for the same product, also under
\* concurrent add requests, so a cart that passes checkout's per-line check
\* availableStock >= quantity makes the checkout reserve, per product, no more
\* than that product's availableStock.
C39_OneLinePerProduct ==
  \A u \in Users :
    /\ \A i, j \in 1..Len(carts[u]) :
         i /= j => carts[u][i].productId /= carts[u][j].productId
    /\ ValidateCart(carts[u], products) = "ok"
         => \A p \in Products :
              /\ ReserveAll(products, OrderItems(carts[u], products))[p].reservedStock
                   = products[p].reservedStock + CartQty(carts[u], p)
              /\ CartQty(carts[u], p) <= availableStock(products[p])

\* the data the handlers store
Stored == <<orders, products, carts, payments, emailJobs>>

\* the callback of request r is executed again in this step
Rerun(r) == req'[r].runs > req[r].runs /\ req'[r].runs >= 2

\* the replica-set error: the second execution, without a session, after a
\* first one that stored nothing
FallbackRerun(r) ==
  /\ ~txnSupported
  /\ req[r].runs <= 1 /\ req'[r].runs = 2
  /\ ~req'[r].session
  /\ UNCHANGED Stored

\* withTransaction retries the callback after a write conflict
ConflictRerun(r) ==
  /\ txnSupported
  /\ req'[r].runs = req[r].runs + 1
  /\ \/ /\ req[r].pc = "c_commit"
        /\ \/ ProductConflict(req[r].snap, req[r].order.items)
           \/ carts[req[r].user] /= req[r].csnap
     \/ /\ req[r].pc \in {"p_commit", "p_exp_commit"}
        /\ PayConflict(r)
  /\ UNCHANGED Stored

\* request r ends in this step with an error response
EndsInError(r) ==
  /\ req[r].pc /= "done" /\ req'[r].pc = "done"
  /\ req'[r].kind \in {"checkout", "pay"}
  /\ req'[r].result \notin {"created", "paid"}

====
